---- MODULE Spec2Model ----
(***************************************************************************)
(* Model of jellyfin_mp4_to_webp_gui.pyw: the job queue, the worker        *)
(* processes (worker_process / process_video), the progress queue, the     *)
(* monitor thread (monitor_progress) and the GUI thread's start, stop and  *)
(* completion handlers.                                                    *)
(*                                                                         *)
(* multiprocessing.Queue is taken by its contract: a process-safe FIFO     *)
(* whose put and get are atomic.  Spec follows one batch, from the press   *)
(* of Start to batch completion or to the end of a graceful stop;          *)
(* RestartSpec follows a second press of Start, FairRestartSpec adds the   *)
(* scheduling of processes, threads and callbacks.  EtaSpec, ProbeSpec,    *)
(* PlanSpec and FsSpec follow one function each over bounded inputs.       *)
(***************************************************************************)
EXTENDS Integers, Sequences, FiniteSets, TLC

\* ---------------------------------------------------------------- bounds
NumJobs == 2
NumWorkers == 2
MaxPendingUpdates == 1
MaxBatches == 2
MaxStrayStops == 2

Jobs == 1..NumJobs
Workers == 1..NumWorkers
\* One monitor thread is created per batch started.
Monitors == 1..MaxBatches

\* ------------------------------------------------------ program constants
\* The poison pill put on the job queue (None in the source).
PoisonPill == 0
\* Warm-up of the overall ETA: 2 completed videos or 10 seconds.
WarmupVideos == 2
WarmupSeconds == 10

\* Values of the "Workers" setting: the slider offers 1..8, load_settings
\* (line 576) takes whatever the saved configuration holds.
WorkerCounts == {0, NumWorkers}
\* Values the "Intervals" entry can hold when a batch starts.
IntervalCounts == {0, 10}
\* Wall-clock seconds since batch start, as time.time() can report them.
ElapsedValues == {0, 5, 10}
\* get_video_duration returns None (line 109) when no attempt parses.
NoDuration == -1
\* What get_video_duration returns inside a worker.
ProbeResults == {NoDuration, 0, 3}
\* The folder scanned: ffprobe finds no duration for the first video and a
\* duration growing with the index for the others.
ScannedDuration(j) == IF j = 1 THEN NoDuration ELSE j + 1
\* The folder scanned: the last video has an old preview in another format.
OldLandscapes == {NumJobs}

VARIABLES
    \* --- settings and file system
    overwrite_var,            \* "Overwrite Existing" checkbox
    intervals_var,            \* "Intervals" entry
    workers_var,              \* "Workers" setting
    batches_left,             \* presses of Start still followed
    stray_stops_left,         \* Stop requests still followed that come with
                              \* is_running False (the button is disabled)
    outputs,                  \* jobs whose <stem>-landscape.webp exists
    old_files,                \* jobs with a <stem>-landscape.* file of another format
    \* --- JellyfinLandscapeGUI state
    is_running, is_stopping, total_videos, completed_videos,
    total_video_duration, processed_video_duration, video_durations,
    batch_start_time,         \* FALSE = None, TRUE = set
    time_passed,              \* time.time() has moved past batch_start_time
    workers,                  \* self.workers: set of started worker ids
    start_button, stop_button, overall_label,
    launch_pc,                \* "idle" | "scanning" | "scanned" | "queued" | "started"
    gui_pc,                   \* position of the GUI thread inside stop_processing
    pills_put,                \* poison pills pushed so far by stop_processing
    after_queue,              \* callbacks scheduled with self.after(0, ...)
    mon_pc,                   \* per monitor thread: "none" | "check" | "get" | "dead"
    \* --- queues
    job_queue, progress_queue,
    \* --- worker processes
    wpc,                      \* "none" | "get" | "probe" | "sample" | "exited"
    wjob,                     \* job held by the worker (0 = none)
    wexisted,                 \* file_existed of the job held
    \* --- logs of what happened (external invocations, messages)
    dispatched,               \* per job: times a worker received it
    emitted,                  \* per job: JobCompletes put on the progress queue
    counted,                  \* per job: times it incremented completed_videos
    probed, sampled,          \* jobs for which ffprobe / ffmpeg was invoked by a worker
    worker_errors,            \* <<worker, job>>: "Worker w error" was printed
    in_flight_at_stop,        \* jobs held since before Stop was pressed
    stop_returned,            \* stop_processing ran to its end
    \* --- single functions and handlers followed on their own
    eta_in, eta_out,          \* overall ETA of monitor_progress
    probe_stub, probe_out,    \* get_video_duration: ffprobe's runs, the result
    plan_in, plan_out,        \* process_video: the sampling plan
    fs_files, fs_jobs,        \* the folder as process_video changes it
    fs_deleted, fs_kept       \* <<stem, file>>: unlinked by, kept from, a cleanup

\* The variables of the functions followed on their own.
etaVars == << eta_in, eta_out >>
probeVars == << probe_stub, probe_out >>
planVars == << plan_in, plan_out >>
fsVars == << fs_files, fs_jobs, fs_deleted, fs_kept >>
auxVars == << etaVars, probeVars, planVars, fsVars >>

vars == << auxVars, overwrite_var, intervals_var, workers_var, batches_left, stray_stops_left, outputs, old_files, is_running, is_stopping,
           total_videos, completed_videos, total_video_duration,
           processed_video_duration, video_durations, batch_start_time,
           time_passed, workers, start_button, stop_button, overall_label,
           launch_pc, gui_pc, pills_put, after_queue, mon_pc, job_queue,
           progress_queue, wpc, wjob, wexisted, dispatched, emitted,
           counted, probed, sampled, worker_errors, in_flight_at_stop,
           stop_returned >>

settingsVars == << overwrite_var, intervals_var, workers_var >>
counterVars == << total_videos, completed_videos, total_video_duration,
                  processed_video_duration, video_durations, time_passed >>
workerVars == << wpc, wjob, wexisted >>
logVars == << dispatched, emitted, counted, probed, sampled, worker_errors >>
\* Everything a batch reads or writes.
batchVars == << settingsVars, batches_left, outputs, old_files, is_running,
                is_stopping, counterVars, batch_start_time, workers,
                start_button, stop_button, overall_label, launch_pc, gui_pc,
                pills_put, after_queue, mon_pc, job_queue, progress_queue,
                workerVars, logVars, in_flight_at_stop, stop_returned >>

\* ---------------------------------------------------------------- messages
JobComplete(w, j, ok, msg, deleted, dur) ==
    [type |-> "JobComplete", worker_id |-> w, video_name |-> j, success |-> ok,
     message |-> msg, deleted_files |-> deleted, video_duration |-> dur]

ProgressUpdate(w, j) ==
    [type |-> "ProgressUpdate", worker_id |-> w, video_name |-> j]

\* progress_queue.put, lines 145, 157, 255, 275, 284, 293: what one process
\* puts is received in the order it was put.
PutInFront(q, msg) == << msg >> \o q

QueuePut(q, msg) == Append(q, msg)

\* ProgressUpdates waiting in the progress queue.
PendingUpdates ==
    Cardinality({i \in 1..Len(progress_queue) :
                    progress_queue[i].type = "ProgressUpdate"})

IsAlive(w) == wpc[w] \in {"get", "probe", "sample"}

AliveWorkers == Cardinality({w \in workers : IsAlive(w)})

RECURSIVE Pills(_)
Pills(n) == IF n = 0 THEN << >> ELSE << PoisonPill >> \o Pills(n - 1)

RECURSIVE JobSeq(_)
JobSeq(n) == IF n = 0 THEN << >> ELSE Append(JobSeq(n - 1), n)

\* --------------------------------------------------------------- __init__
\* Everything but the settings and the files found in the folder.
Idle ==
    /\ old_files = OldLandscapes
    /\ is_running = FALSE
    /\ is_stopping = FALSE
    /\ total_videos = 0
    /\ completed_videos = 0
    /\ total_video_duration = 0
    /\ processed_video_duration = 0
    /\ video_durations = [j \in Jobs |-> 0]
    /\ batch_start_time = FALSE
    /\ time_passed = FALSE
    /\ workers = {}
    /\ start_button = "normal"
    /\ stop_button = "disabled"
    /\ overall_label = "initial"
    /\ launch_pc = "idle"
    /\ gui_pc = "idle"
    /\ pills_put = 0
    /\ after_queue = << >>
    /\ mon_pc = [m \in Monitors |-> "none"]
    /\ job_queue = << >>
    /\ progress_queue = << >>
    /\ wpc = [w \in Workers |-> "none"]
    /\ wjob = [w \in Workers |-> 0]
    /\ wexisted = [w \in Workers |-> FALSE]
    /\ dispatched = [j \in Jobs |-> 0]
    /\ emitted = [j \in Jobs |-> 0]
    /\ counted = [j \in Jobs |-> 0]
    /\ probed = {}
    /\ sampled = {}
    /\ worker_errors = {}
    /\ in_flight_at_stop = {}
    /\ stop_returned = FALSE

\* No function is followed on its own.
AuxIdle ==
    /\ eta_in = [completed_videos |-> 0]
    /\ eta_out = [text |-> "none"]
    /\ probe_stub = << >>
    /\ probe_out = [kind |-> "none"]
    /\ plan_in = [interval_count |-> 0]
    /\ plan_out = [kind |-> "none"]
    /\ fs_files = {}
    /\ fs_jobs = << >>
    /\ fs_deleted = {}
    /\ fs_kept = {}

Init ==
    /\ AuxIdle
    /\ overwrite_var \in BOOLEAN
    /\ intervals_var \in IntervalCounts
    /\ workers_var \in WorkerCounts
    /\ outputs \in SUBSET Jobs
    /\ batches_left = 1
    /\ stray_stops_left = 0
    /\ Idle

\* ------------------------------------------------------- start of a batch
\* start_processing: the folder exists and holds the NumJobs mp4 files.  A
\* further press of Start is followed once the worker processes of the batch
\* before have ended; the record of what happened starts afresh.
start_processing ==
    /\ start_button = "normal"
    /\ launch_pc \in {"idle", "started"}
    /\ gui_pc = "idle"
    /\ batches_left > 0
    /\ \A w \in Workers : wpc[w] \in {"none", "exited"}
    /\ batches_left' = batches_left - 1
    /\ dispatched' = [j \in Jobs |-> 0]
    /\ emitted' = [j \in Jobs |-> 0]
    /\ counted' = [j \in Jobs |-> 0]
    /\ probed' = {}
    /\ sampled' = {}
    /\ worker_errors' = {}
    /\ in_flight_at_stop' = {}
    /\ stop_returned' = FALSE
    /\ total_videos' = NumJobs
    /\ completed_videos' = 0
    /\ is_running' = TRUE
    /\ is_stopping' = FALSE
    /\ batch_start_time' = FALSE
    /\ total_video_duration' = 0
    /\ processed_video_duration' = 0
    /\ video_durations' = [j \in Jobs |-> 0]
    /\ time_passed' = FALSE
    /\ start_button' = "disabled"
    /\ launch_pc' = "scanning"
    /\ UNCHANGED << auxVars, settingsVars, stray_stops_left, old_files, outputs, workers, stop_button,
                    overall_label, gui_pc, pills_put, after_queue, mon_pc,
                    job_queue, progress_queue, workerVars >>

RECURSIVE SumDurations(_, _)
RECURSIVE SumWithoutLast(_, _)
SumWithoutLast(d, n) ==
    IF n <= 1 THEN 0 ELSE d[n - 1] + SumWithoutLast(d, n - 1)

SumDurations(d, n) == IF n = 0 THEN 0 ELSE d[n] + SumDurations(d, n - 1)

\* _scan_videos_and_start: the scan thread probes every video; a duration that
\* is None or 0 is neither cached nor added.
scan_videos_and_start ==
    /\ launch_pc = "scanning"
    /\ LET d == [j \in Jobs |-> IF ScannedDuration(j) = NoDuration
                                 THEN 0 ELSE ScannedDuration(j)]
       IN  /\ video_durations' = d
           /\ total_video_duration' = SumDurations(d, NumJobs)
    /\ launch_pc' = "scanned"
    /\ UNCHANGED << auxVars, settingsVars, batches_left, stray_stops_left, old_files, in_flight_at_stop, outputs, is_running, is_stopping, total_videos,
                    completed_videos, processed_video_duration, batch_start_time,
                    time_passed, workers, start_button, stop_button,
                    overall_label, gui_pc, pills_put, after_queue, mon_pc,
                    job_queue, progress_queue, workerVars, logVars,
                    stop_returned >>

\* _finalize_scan_and_start, lines 739-752: the job queue before the workers
\* are started.
QueueAtStart(n_jobs, n_workers) == JobSeq(n_jobs) \o Pills(n_workers)

\* _finalize_scan_and_start, first half: the queues are created, one VideoJob
\* per video and one poison pill per worker are put, the workers are started.
finalize_start_workers ==
    /\ launch_pc = "scanned"
    /\ gui_pc = "idle"
    /\ job_queue' = QueueAtStart(NumJobs, workers_var)
    /\ progress_queue' = << >>
    /\ workers' = 1..workers_var
    /\ wpc' = [w \in Workers |-> IF w <= workers_var THEN "get" ELSE "none"]
    /\ launch_pc' = "queued"
    /\ UNCHANGED << auxVars, settingsVars, batches_left, stray_stops_left, old_files, in_flight_at_stop, outputs, is_running, is_stopping, counterVars,
                    batch_start_time, start_button, stop_button, overall_label,
                    gui_pc, pills_put, after_queue, mon_pc, wjob, wexisted,
                    logVars, stop_returned >>

\* _finalize_scan_and_start, second half: the start time is taken, the Stop
\* button is enabled and the monitor thread is started.
NewMonitor ==
    CHOOSE m \in Monitors :
       mon_pc[m] = "none" /\ \A k \in 1..(m - 1) : mon_pc[k] # "none"

finalize_start_monitor ==
    /\ launch_pc = "queued"
    /\ batch_start_time' = TRUE
    /\ stop_button' = "normal"
    /\ mon_pc' = [mon_pc EXCEPT ![NewMonitor] = "check"]
    /\ launch_pc' = "started"
    /\ UNCHANGED << auxVars, settingsVars, batches_left, stray_stops_left, old_files, in_flight_at_stop, outputs, is_running, is_stopping, counterVars,
                    workers, start_button, overall_label, gui_pc, pills_put,
                    after_queue, job_queue, progress_queue, workerVars, logVars,
                    stop_returned >>

\* ------------------------------------------------------------ the workers
\* process_video, line 144: skip when the output exists and overwrite is off.
SkipNever(file_existed, overwrite_existing) == FALSE

SkipExisting(file_existed, overwrite_existing) ==
    file_existed /\ ~overwrite_existing

\* process_video, line 166: duration / config.interval_count, outside the try.
PlanRaises(duration, interval_count) == interval_count = 0

\* worker_process, lines 313-316: the exception is printed, the loop goes on.
DiesOnException == "exited"

AfterException == "get"

\* job_queue.get, line 309: the item received is removed from the queue.
GetLeavesItem(q) == q

QueueAfterGet(q) == Tail(q)

\* worker_process receives the poison pill and leaves its loop.
worker_exit(w) ==
    /\ wpc[w] = "get"
    /\ job_queue # << >>
    /\ Head(job_queue) = PoisonPill
    /\ job_queue' = QueueAfterGet(job_queue)
    /\ wpc' = [wpc EXCEPT ![w] = "exited"]
    /\ UNCHANGED << auxVars, settingsVars, batches_left, stray_stops_left, old_files, in_flight_at_stop, outputs, is_running, is_stopping, counterVars,
                    batch_start_time, workers, start_button, stop_button,
                    overall_label, launch_pc, gui_pc, pills_put, after_queue,
                    mon_pc, progress_queue, wjob, wexisted, logVars,
                    stop_returned >>

\* worker_process receives a VideoJob; process_video runs up to the duration
\* probe (lines 130-155): an existing output is skipped unless overwriting.
worker_get_job(w) ==
    /\ wpc[w] = "get"
    /\ job_queue # << >>
    /\ Head(job_queue) # PoisonPill
    /\ LET j == Head(job_queue)
           file_existed == j \in outputs
       IN  /\ job_queue' = QueueAfterGet(job_queue)
           /\ dispatched' = [dispatched EXCEPT ![j] = @ + 1]
           /\ IF SkipExisting(file_existed, overwrite_var)
              THEN /\ progress_queue' = QueuePut(progress_queue,
                          JobComplete(w, j, TRUE, "SKIP (exists)", << >>,
                                      video_durations[j]))
                   /\ emitted' = [emitted EXCEPT ![j] = @ + 1]
                   /\ UNCHANGED << wpc, wjob, wexisted, probed >>
              ELSE /\ wpc' = [wpc EXCEPT ![w] = "probe"]
                   /\ wjob' = [wjob EXCEPT ![w] = j]
                   /\ wexisted' = [wexisted EXCEPT ![w] = file_existed]
                   /\ probed' = probed \cup {j}
                   /\ UNCHANGED << progress_queue, emitted >>
    /\ UNCHANGED << auxVars, settingsVars, batches_left, stray_stops_left, old_files, in_flight_at_stop, outputs, is_running, is_stopping, counterVars,
                    batch_start_time, workers, start_button, stop_button,
                    overall_label, launch_pc, gui_pc, pills_put, after_queue,
                    mon_pc, counted, sampled, worker_errors,
                    stop_returned >>

\* process_video, lines 157-163: what is put when get_video_duration gave None.
ReportedAsSuccess(w, j, dur) ==
    JobComplete(w, j, TRUE, "Duration read failed", << >>, dur)

DurationReadFailed(w, j, dur) ==
    JobComplete(w, j, FALSE, "Duration read failed", << >>, dur)

\* process_video, lines 155-236: get_video_duration returns; None is reported,
\* the plan is computed (a zero interval count raises outside the try and
\* reaches worker_process), ffmpeg is launched (a launch failure is reported).
worker_probe_done(w) ==
    /\ wpc[w] = "probe"
    /\ LET j == wjob[w] IN
       \E duration \in ProbeResults, launched \in BOOLEAN :
          IF duration = NoDuration
          THEN /\ progress_queue' = QueuePut(progress_queue,
                      DurationReadFailed(w, j, video_durations[j]))
               /\ emitted' = [emitted EXCEPT ![j] = @ + 1]
               /\ wpc' = [wpc EXCEPT ![w] = "get"]
               /\ wjob' = [wjob EXCEPT ![w] = 0]
               /\ wexisted' = [wexisted EXCEPT ![w] = FALSE]
               /\ UNCHANGED << sampled, worker_errors >>
          ELSE IF PlanRaises(duration, intervals_var)
          THEN /\ worker_errors' = worker_errors \cup {<< w, j >>}
               /\ wpc' = [wpc EXCEPT ![w] = AfterException]
               /\ wjob' = [wjob EXCEPT ![w] = 0]
               /\ wexisted' = [wexisted EXCEPT ![w] = FALSE]
               /\ UNCHANGED << progress_queue, emitted, sampled >>
          ELSE IF launched
          THEN /\ sampled' = sampled \cup {j}
               /\ wpc' = [wpc EXCEPT ![w] = "sample"]
               /\ UNCHANGED << progress_queue, emitted, wjob, wexisted,
                               worker_errors >>
          ELSE /\ sampled' = sampled \cup {j}
               /\ progress_queue' = QueuePut(progress_queue,
                      JobComplete(w, j, FALSE, "exception", << >>,
                                  video_durations[j]))
               /\ emitted' = [emitted EXCEPT ![j] = @ + 1]
               /\ wpc' = [wpc EXCEPT ![w] = "get"]
               /\ wjob' = [wjob EXCEPT ![w] = 0]
               /\ wexisted' = [wexisted EXCEPT ![w] = FALSE]
               /\ UNCHANGED worker_errors
    /\ in_flight_at_stop' = IF wpc'[w] = "sample" THEN in_flight_at_stop
                            ELSE in_flight_at_stop \ {wjob[w]}
    /\ UNCHANGED << auxVars, settingsVars, batches_left, stray_stops_left, old_files, outputs, is_running, is_stopping, counterVars,
                    batch_start_time, workers, start_button, stop_button,
                    overall_label, launch_pc, gui_pc, pills_put, after_queue,
                    mon_pc, job_queue, dispatched, counted,
                    probed, stop_returned >>

\* process_video, lines 241-265: a "frame=" line of ffmpeg is reported.
worker_progress(w) ==
    /\ wpc[w] = "sample"
    /\ PendingUpdates < MaxPendingUpdates
    /\ progress_queue' = QueuePut(progress_queue, ProgressUpdate(w, wjob[w]))
    /\ UNCHANGED << auxVars, settingsVars, batches_left, stray_stops_left, old_files, in_flight_at_stop, outputs, is_running, is_stopping, counterVars,
                    batch_start_time, workers, start_button, stop_button,
                    overall_label, launch_pc, gui_pc, pills_put, after_queue,
                    mon_pc, job_queue, wpc, wjob, wexisted, logVars,
                    stop_returned >>

\* cleanup_old_landscapes, lines 111-125: the old file of the job, if there is
\* one, is deleted unless unlink raises; the names deleted are returned.
CleanupOldLandscapes(j, unlinked) ==
    IF j \in old_files /\ unlinked THEN << j >> ELSE << >>

\* process_video, line 273: the message of a successful job.
OkWhateverExisted(file_existed) == "OK"

OkMessage(file_existed) == IF file_existed THEN "OK (overwritten)" ELSE "OK"

\* process_video, line 269: cleanup_old_landscapes runs after returncode 0 only.
CleanupAlways(outcome) == TRUE

CleanupRuns(outcome) == outcome = "ok"

\* process_video, lines 267-299: ffmpeg ends with status 0 (the output exists,
\* the job is reported OK), with another status, or reading it raised.
worker_sample_done(w) ==
    /\ wpc[w] = "sample"
    /\ LET j == wjob[w] IN
       \E outcome \in {"ok", "ffmpeg error", "exception"},
          unlinked \in BOOLEAN :
          LET deleted_files == IF CleanupRuns(outcome)
                               THEN CleanupOldLandscapes(j, unlinked)
                               ELSE << >>
          IN
          /\ progress_queue' = QueuePut(progress_queue,
                IF outcome = "ok"
                THEN JobComplete(w, j, TRUE,
                        OkMessage(wexisted[w]),
                        deleted_files, video_durations[j])
                ELSE JobComplete(w, j, FALSE, outcome, << >>,
                                 video_durations[j]))
          /\ outputs' = IF outcome = "ok" THEN outputs \cup {j} ELSE outputs
          /\ old_files' = IF deleted_files # << >>
                          THEN old_files \ {j} ELSE old_files
          /\ emitted' = [emitted EXCEPT ![j] = @ + 1]
    /\ wpc' = [wpc EXCEPT ![w] = "get"]
    /\ wjob' = [wjob EXCEPT ![w] = 0]
    /\ wexisted' = [wexisted EXCEPT ![w] = FALSE]
    /\ in_flight_at_stop' = in_flight_at_stop \ {wjob[w]}
    /\ UNCHANGED << auxVars, settingsVars, batches_left, stray_stops_left, is_running, is_stopping, counterVars,
                    batch_start_time, workers, start_button, stop_button,
                    overall_label, launch_pc, gui_pc, pills_put, after_queue,
                    mon_pc, job_queue, dispatched, counted, probed, sampled,
                    worker_errors, stop_returned >>

\* ------------------------------------------------------ the monitor thread
\* monitor_progress, lines 799/806 and 885/886: no worker process is alive.
QueueIsEmpty == job_queue = << >>

AllWorkersDone == AliveWorkers = 0

\* monitor_progress, line 795: what counts as completed while stopping.
DrainCounts(msg) == msg.success /\ msg.message # "SKIP (exists)"

\* monitor_progress, line 879: the batch is done.
DoneOneEarly(completed, total) == completed + 1 >= total

BatchDone(completed, total) == completed >= total

\* monitor_progress, line 846: the warm-up of the overall ETA is over.
AlwaysWarm(completed, elapsed) == TRUE

WarmedUp(completed, elapsed) ==
    completed >= WarmupVideos \/ elapsed >= WarmupSeconds

\* monitor_progress, line 851: remaining_duration / processing_rate, the rate
\* being the fraction << processed seconds, elapsed seconds >>.
EtaTimesRate(remaining_duration, rate) ==
    << remaining_duration * rate[1], rate[2] >>

EtaSeconds(remaining_duration, rate) ==
    << remaining_duration * rate[2], rate[1] >>

\* monitor_progress, lines 863-869: the rate is not above 0.
NoFallback(completed, total) ==
    [text |-> "unchanged", remaining |-> total - completed,
     progress |-> << completed - 1, total >>]

ZeroRateFallback(completed, total) ==
    [text |-> "calculating", remaining |-> total - completed,
     progress |-> << completed, total >>]

\* monitor_progress, lines 842-876: the text of the overall label and the value
\* of the overall progress bar.  Fractions are pairs << numerator,
\* denominator >>; eta_shown is int(eta_seconds), the value formatted as
\* HH:MM:SS.
OverallEta(completed, total, elapsed, processed, total_duration) ==
    LET remaining == total - completed
        remaining_duration == total_duration - processed
    IN  IF WarmedUp(completed, elapsed)
        THEN IF elapsed = 0
             THEN [text |-> "ZeroDivisionError"]
             ELSE LET processing_rate == << processed, elapsed >>
                      eta_seconds == EtaSeconds(remaining_duration,
                                                processing_rate)
                  IN  IF processed > 0
                      THEN [text |-> "eta", remaining |-> remaining,
                            progress |-> << completed, total >>,
                            eta_seconds |-> eta_seconds,
                            eta_shown |-> eta_seconds[1] \div eta_seconds[2],
                            speed_multiplier |-> processing_rate]
                      ELSE ZeroRateFallback(completed, total)
        ELSE [text |-> "calculating", remaining |-> remaining,
              progress |-> << completed, total >>]

\* monitor_progress, line 775: the loop condition.
monitor_check(m) ==
    /\ mon_pc[m] = "check"
    /\ mon_pc' = [mon_pc EXCEPT
                     ![m] = IF is_running \/ is_stopping THEN "get" ELSE "dead"]
    /\ UNCHANGED << auxVars, settingsVars, batches_left, stray_stops_left, old_files, in_flight_at_stop, outputs, is_running, is_stopping, counterVars,
                    batch_start_time, workers, start_button, stop_button,
                    overall_label, launch_pc, gui_pc, pills_put, after_queue,
                    job_queue, progress_queue, workerVars, logVars,
                    stop_returned >>

\* monitor_progress, lines 882-889: the get timed out (queue.Empty).
monitor_empty(m) ==
    /\ mon_pc[m] = "get"
    /\ progress_queue = << >>
    /\ IF is_stopping /\ AllWorkersDone
       THEN /\ after_queue' = Append(after_queue, "_finish_stop")
            /\ mon_pc' = [mon_pc EXCEPT ![m] = "dead"]
       ELSE /\ mon_pc' = [mon_pc EXCEPT ![m] = "check"]
            /\ UNCHANGED after_queue
    /\ UNCHANGED << auxVars, settingsVars, batches_left, stray_stops_left, old_files, in_flight_at_stop, outputs, is_running, is_stopping, counterVars,
                    batch_start_time, workers, start_button, stop_button,
                    overall_label, launch_pc, gui_pc, pills_put, job_queue,
                    progress_queue, workerVars, logVars, stop_returned >>

\* monitor_progress, lines 779-782: a ProgressUpdate only updates a panel.
monitor_progress_update(m) ==
    /\ mon_pc[m] = "get"
    /\ progress_queue # << >>
    /\ Head(progress_queue).type = "ProgressUpdate"
    /\ progress_queue' = Tail(progress_queue)
    /\ mon_pc' = [mon_pc EXCEPT ![m] = "check"]
    /\ UNCHANGED << auxVars, settingsVars, batches_left, stray_stops_left, old_files, in_flight_at_stop, outputs, is_running, is_stopping, counterVars,
                    batch_start_time, workers, start_button, stop_button,
                    overall_label, launch_pc, gui_pc, pills_put, after_queue,
                    job_queue, workerVars, logVars, stop_returned >>

\* monitor_progress, lines 784-811: a JobComplete received while stopping.
monitor_job_complete_stopping(m) ==
    /\ mon_pc[m] = "get"
    /\ progress_queue # << >>
    /\ Head(progress_queue).type = "JobComplete"
    /\ is_stopping
    /\ LET msg == Head(progress_queue) IN
          /\ progress_queue' = Tail(progress_queue)
          /\ IF DrainCounts(msg)
             THEN /\ completed_videos' = completed_videos + 1
                  /\ counted' = [counted EXCEPT ![msg.video_name] = @ + 1]
             ELSE UNCHANGED << completed_videos, counted >>
    /\ overall_label' = "stopping"
    /\ IF AllWorkersDone
       THEN /\ after_queue' = Append(after_queue, "_finish_stop")
            /\ mon_pc' = [mon_pc EXCEPT ![m] = "dead"]
       ELSE /\ mon_pc' = [mon_pc EXCEPT ![m] = "check"]
            /\ UNCHANGED after_queue
    /\ UNCHANGED << auxVars, settingsVars, batches_left, stray_stops_left, old_files, in_flight_at_stop, outputs, is_running, is_stopping, total_videos,
                    total_video_duration, processed_video_duration,
                    video_durations, time_passed, batch_start_time, workers,
                    start_button, stop_button, launch_pc, gui_pc, pills_put,
                    job_queue, workerVars, dispatched, emitted, probed, sampled,
                    worker_errors, stop_returned >>

\* monitor_progress, lines 813-880: a JobComplete received while not stopping.
\* With the warm-up passed and no time elapsed the rate division raises; the
\* handler at line 890 logs it and the completion check is not reached.
monitor_job_complete(m) ==
    /\ mon_pc[m] = "get"
    /\ progress_queue # << >>
    /\ Head(progress_queue).type = "JobComplete"
    /\ ~is_stopping
    /\ LET msg == Head(progress_queue) IN
       \E elapsed \in ElapsedValues :
          /\ time_passed => elapsed > 0
          /\ time_passed' = (elapsed > 0)
          /\ progress_queue' = Tail(progress_queue)
          /\ processed_video_duration' =
                processed_video_duration + msg.video_duration
          /\ completed_videos' = completed_videos + 1
          /\ counted' = [counted EXCEPT ![msg.video_name] = @ + 1]
          /\ LET eta == OverallEta(completed_videos', total_videos, elapsed,
                                    processed_video_duration',
                                    total_video_duration)
             IN  IF eta.text = "ZeroDivisionError"
                 THEN UNCHANGED << overall_label, after_queue >>
                 ELSE /\ overall_label' = eta.text
                      /\ after_queue' =
                            IF BatchDone(completed_videos', total_videos)
                            THEN Append(after_queue, "processing_complete")
                            ELSE after_queue
    /\ mon_pc' = [mon_pc EXCEPT ![m] = "check"]
    /\ UNCHANGED << auxVars, settingsVars, batches_left, stray_stops_left, old_files, in_flight_at_stop, outputs, is_running, is_stopping, total_videos,
                    total_video_duration, video_durations, batch_start_time,
                    workers, start_button, stop_button, launch_pc, gui_pc,
                    pills_put, job_queue, workerVars, dispatched, emitted,
                    probed, sampled, worker_errors, stop_returned >>

\* ----------------------------------------------------------- the GUI thread
\* A callback of the GUI thread starts when no other is running.
GuiThreadFree == gui_pc = "idle" /\ launch_pc # "queued"

\* processing_complete, lines 893-914, run from the after queue.
processing_complete ==
    /\ GuiThreadFree
    /\ after_queue # << >>
    /\ Head(after_queue) = "processing_complete"
    /\ after_queue' = Tail(after_queue)
    /\ is_running' = FALSE
    /\ start_button' = "normal"
    /\ stop_button' = "disabled"
    /\ UNCHANGED << auxVars, settingsVars, batches_left, stray_stops_left, old_files, in_flight_at_stop, outputs, is_stopping, counterVars,
                    batch_start_time, workers, overall_label, launch_pc, gui_pc,
                    pills_put, mon_pc, job_queue, progress_queue, workerVars,
                    logVars, stop_returned >>

\* stop_processing, lines 949-950: one poison pill per worker.
OnePillMore == Cardinality(workers) + 1

PillsToPush == Cardinality(workers)

\* stop_processing, line 942: the drain loop goes on while the queue holds items.
DrainNothing(q) == FALSE

DrainTakes(q) == q # << >>

\* stop_processing, lines 917-918: the guard on is_running.
StopNeverReturnsEarly(running) == FALSE

StopReturnsAtOnce(running) == ~running

\* stop_processing, lines 916-939: the Stop button is pressed, or the method
\* is called while the button is disabled and is_running is False (the button
\* is enabled only while is_running is True, lines 766, 910, 924, 973).
stop_processing ==
    /\ gui_pc = "idle"
    /\ \/ stop_button = "normal" /\ UNCHANGED stray_stops_left
       \/ /\ stop_button # "normal" /\ ~is_running
          /\ stray_stops_left > 0
          /\ stray_stops_left' = stray_stops_left - 1
    /\ IF StopReturnsAtOnce(is_running)
       THEN UNCHANGED << auxVars, batchVars >>
       ELSE /\ is_stopping' = TRUE
            /\ is_running' = FALSE
            /\ stop_button' = "disabled"
            /\ overall_label' = "stopping"
            /\ gui_pc' = "drain"
            /\ in_flight_at_stop' = {wjob[w] : w \in Workers} \ {0}
            /\ pills_put' = 0
            /\ UNCHANGED << auxVars, settingsVars, batches_left, old_files, outputs, counterVars,
                            batch_start_time, workers, start_button, launch_pc,
                            after_queue, mon_pc, job_queue,
                            progress_queue, workerVars, logVars,
                            stop_returned >>

\* stop_processing, lines 941-946: one pass of the drain loop.
stop_drain ==
    /\ gui_pc = "drain"
    /\ IF DrainTakes(job_queue)
       THEN /\ job_queue' = Tail(job_queue)
            /\ UNCHANGED gui_pc
       ELSE /\ gui_pc' = "pills"
            /\ UNCHANGED job_queue
    /\ UNCHANGED << auxVars, settingsVars, batches_left, stray_stops_left, old_files, in_flight_at_stop, outputs, is_running, is_stopping, counterVars,
                    batch_start_time, workers, start_button, stop_button,
                    overall_label, launch_pc, pills_put, after_queue, mon_pc,
                    progress_queue, workerVars, logVars, stop_returned >>

\* stop_processing, lines 948-950: one pass of the poison-pill loop; after the
\* last one stop_processing returns.
stop_pill ==
    /\ gui_pc = "pills"
    /\ IF pills_put < PillsToPush
       THEN /\ job_queue' = Append(job_queue, PoisonPill)
            /\ pills_put' = pills_put + 1
            /\ UNCHANGED << gui_pc, stop_returned >>
       ELSE /\ gui_pc' = "idle"
            /\ stop_returned' = TRUE
            /\ UNCHANGED << job_queue, pills_put >>
    /\ UNCHANGED << auxVars, settingsVars, batches_left, stray_stops_left, old_files, in_flight_at_stop, outputs, is_running, is_stopping, counterVars,
                    batch_start_time, workers, start_button, stop_button,
                    overall_label, launch_pc, after_queue, mon_pc,
                    progress_queue, workerVars, logVars >>

\* _finish_stop, lines 954-987, run from the after queue.
finish_stop ==
    /\ GuiThreadFree
    /\ after_queue # << >>
    /\ Head(after_queue) = "_finish_stop"
    /\ after_queue' = Tail(after_queue)
    /\ workers' = {}
    /\ is_stopping' = FALSE
    /\ start_button' = "normal"
    /\ stop_button' = "disabled"
    /\ overall_label' = "stopped"
    /\ UNCHANGED << auxVars, settingsVars, batches_left, stray_stops_left, old_files, in_flight_at_stop, outputs, is_running, counterVars,
                    batch_start_time, launch_pc, gui_pc, pills_put, mon_pc,
                    job_queue, progress_queue, workerVars, logVars,
                    stop_returned >>

\* ------------------------------------------------------------ specification
Next ==
    \/ start_processing
    \/ scan_videos_and_start
    \/ finalize_start_workers
    \/ finalize_start_monitor
    \/ \E w \in Workers : worker_exit(w)
    \/ \E w \in Workers : worker_get_job(w)
    \/ \E w \in Workers : worker_probe_done(w)
    \/ \E w \in Workers : worker_progress(w)
    \/ \E w \in Workers : worker_sample_done(w)
    \/ \E m \in Monitors : monitor_check(m)
    \/ \E m \in Monitors : monitor_empty(m)
    \/ \E m \in Monitors : monitor_progress_update(m)
    \/ \E m \in Monitors : monitor_job_complete_stopping(m)
    \/ \E m \in Monitors : monitor_job_complete(m)
    \/ processing_complete
    \/ stop_processing
    \/ stop_drain
    \/ stop_pill
    \/ finish_stop

Spec == Init /\ [][Next]_vars

\* Start pressed again after a batch has completed or was stopped: one worker,
\* the default interval count, the first video already has its preview.
RestartInit ==
    /\ AuxIdle
    /\ overwrite_var = FALSE
    /\ intervals_var = 10
    /\ workers_var = 1
    /\ outputs = {1}
    /\ batches_left = MaxBatches
    /\ stray_stops_left = 0
    /\ Idle

RestartSpec == RestartInit /\ [][Next]_vars

\* As RestartInit, with Stop requests that reach stop_processing while
\* is_running is False.
StopInit ==
    /\ AuxIdle
    /\ overwrite_var = FALSE
    /\ intervals_var = 10
    /\ workers_var = 1
    /\ outputs = {1}
    /\ batches_left = MaxBatches
    /\ stray_stops_left = MaxStrayStops
    /\ Idle

StopSpec == StopInit /\ [][Next]_vars

\* Scheduling: every ffprobe and ffmpeg a worker waits for ends, a worker at
\* job_queue.get receives what is at the front, the monitor thread and the
\* callbacks of the GUI thread get to run.  The user need not press a button.
worker_step(w) ==
    worker_exit(w) \/ worker_get_job(w)

sampler_ends(w) ==
    worker_probe_done(w) \/ worker_sample_done(w)

monitor_step(m) ==
    \/ monitor_check(m) \/ monitor_empty(m) \/ monitor_progress_update(m)
    \/ monitor_job_complete_stopping(m) \/ monitor_job_complete(m)

gui_step ==
    \/ finalize_start_workers \/ finalize_start_monitor
    \/ processing_complete \/ stop_drain \/ stop_pill \/ finish_stop

Fairness ==
    /\ \A w \in Workers : WF_vars(worker_step(w))
    /\ \A w \in Workers : WF_vars(sampler_ends(w))
    /\ \A m \in Monitors : WF_vars(monitor_step(m))
    /\ WF_vars(scan_videos_and_start)
    /\ WF_vars(gui_step)

FairRestartSpec == RestartInit /\ [][Next]_vars /\ Fairness

\* The settings and files of a window in which no batch is started.
NoBatch ==
    /\ overwrite_var = FALSE
    /\ intervals_var = 10
    /\ workers_var = NumWorkers
    /\ outputs = {}
    /\ batches_left = 0
    /\ stray_stops_left = 0
    /\ Idle

mainVars == << batchVars, stray_stops_left >>

\* ------------------------------------------- the overall ETA on its own
\* The state in which monitor_progress receives a JobComplete while not
\* stopping: counters before the message, the message's video_duration and
\* the seconds elapsed since batch_start_time.
EtaCompleted == 0..2
EtaElapsed == {0, 5, 9, 10, 20}
EtaDurations == {0, 2}
EtaTotalVideos == 3
EtaTotalDuration == 10

EtaInit ==
    /\ NoBatch
    /\ probe_stub = << >>
    /\ probe_out = [kind |-> "none"]
    /\ plan_in = [interval_count |-> 0]
    /\ plan_out = [kind |-> "none"]
    /\ fs_files = {}
    /\ fs_jobs = << >>
    /\ fs_deleted = {}
    /\ fs_kept = {}
    /\ eta_in \in [completed_videos : EtaCompleted,
                    total_videos : {EtaTotalVideos},
                    elapsed_since_start : EtaElapsed,
                    processed_video_duration : EtaDurations,
                    video_duration : EtaDurations,
                    total_video_duration : {EtaTotalDuration}]
    /\ eta_out = [text |-> "none"]

\* monitor_progress, lines 816-876.
monitor_overall_eta ==
    /\ eta_out.text = "none"
    /\ eta_out' = OverallEta(eta_in.completed_videos + 1, eta_in.total_videos,
                             eta_in.elapsed_since_start,
                             eta_in.processed_video_duration
                                + eta_in.video_duration,
                             eta_in.total_video_duration)
    /\ UNCHANGED << mainVars, eta_in, probeVars, planVars, fsVars >>

EtaSpec == EtaInit /\ [][monitor_overall_eta]_vars

\* ------------------------------------------ get_video_duration on its own
\* retries=3, line 84.
Retries == 3
\* What one run of ffprobe leaves: nothing on stdout, text that is no number,
\* a number, or subprocess.run raising because ffprobe cannot be started.
ProbeOutputs == {"", "N/A", "0", "3", "OSError"}

\* float(output), line 105.
ParsesAsFloat(output) == output \in {"0", "3"}

ParseFloat(output) == IF output = "3" THEN 3 ELSE 0

\* range(retries), line 100.
OneAttemptLess(attempt, retries) == attempt < retries

AttemptsLeft(attempt, retries) == attempt <= retries

\* Lines 100-109, from the attempt-th run of ffprobe on.
RECURSIVE DurationFrom(_, _, _)
DurationFrom(stub, attempt, retries) ==
    IF ~AttemptsLeft(attempt, retries)
    THEN [kind |-> "None", attempts |-> attempt - 1]
    ELSE LET output == stub[attempt] IN
         IF output = "OSError"
         THEN [kind |-> "raised", attempts |-> attempt]
         ELSE IF output # "" /\ ParsesAsFloat(output)
         THEN [kind |-> "float", value |-> ParseFloat(output),
               attempts |-> attempt]
         ELSE DurationFrom(stub, attempt + 1, retries)

ProbeInit ==
    /\ NoBatch
    /\ eta_in = [completed_videos |-> 0]
    /\ eta_out = [text |-> "none"]
    /\ probe_stub \in [1..(Retries + 1) -> ProbeOutputs]
    /\ probe_out = [kind |-> "none"]
    /\ plan_in = [interval_count |-> 0]
    /\ plan_out = [kind |-> "none"]
    /\ fs_files = {}
    /\ fs_jobs = << >>
    /\ fs_deleted = {}
    /\ fs_kept = {}

get_video_duration ==
    /\ probe_out.kind = "none"
    /\ probe_out' = DurationFrom(probe_stub, 1, Retries)
    /\ UNCHANGED << mainVars, etaVars, probe_stub, planVars, fsVars >>

ProbeSpec == ProbeInit /\ [][get_video_duration]_vars

\* ------------------------------- the sampling plan of process_video on its own
\* Python floats are followed as exact fractions << numerator, denominator >>
\* with a positive denominator.
FMul(a, b) == << a[1] * b[1], a[2] * b[2] >>
FDiv(a, b) == << a[1] * b[2], a[2] * b[1] >>
FAdd(a, b) == << a[1] * b[2] + b[1] * a[2], a[2] * b[2] >>
FPositive(a) == a[1] > 0
FEq(a, b) == a[1] * b[2] = b[1] * a[2]
\* int(x) of a value that is not negative.
FInt(a) == a[1] \div a[2]

\* get_config, lines 627-637: the percent entry is divided by 100.
BuildConfig(fps, intervals, clip_length, percent, bridge_abs, window) ==
    [fps |-> fps, interval_count |-> intervals, clip_length |-> clip_length,
     bridge_percent |-> << percent, 100 >>,
     bridge_interval_abs |-> bridge_abs, bridge_window |-> window]

\* Lines 169-174.
BridgeIntervalAbsFirst(interval, config) ==
    IF FPositive(config.bridge_interval_abs)
    THEN config.bridge_interval_abs
    ELSE IF FPositive(config.bridge_percent)
    THEN FMul(interval, config.bridge_percent)
    ELSE << 0, 1 >>

BridgeInterval(interval, config) ==
    IF FPositive(config.bridge_percent)
    THEN FMul(interval, config.bridge_percent)
    ELSE IF FPositive(config.bridge_interval_abs)
    THEN config.bridge_interval_abs
    ELSE << 0, 1 >>

\* Line 177.
MainFrames(config) ==
    FMul(FMul(<< config.interval_count, 1 >>, config.clip_length),
         << config.fps, 1 >>)

\* Lines 178-182.
BridgeFramesPerInterval(duration, bridge_interval, config) ==
    FMul(FMul(<< config.interval_count, 1 >>, config.bridge_window),
         << config.fps, 1 >>)

BridgeFrames(duration, bridge_interval, config) ==
    IF FPositive(bridge_interval)
    THEN FMul(FMul(FDiv(<< duration, 1 >>, bridge_interval),
                   config.bridge_window),
              << config.fps, 1 >>)
    ELSE << 0, 1 >>

\* Line 183: max(1, int(main_frames + bridge_frames)).
ExpectedFramesUnclamped(main_frames, bridge_frames) ==
    FInt(FAdd(main_frames, bridge_frames))

ExpectedFrames(main_frames, bridge_frames) ==
    LET frames == FInt(FAdd(main_frames, bridge_frames))
    IN  IF frames >= 1 THEN frames ELSE 1

\* Lines 166-192, for a duration that is a number and a non-zero interval count.
SamplingPlan(duration, config) ==
    LET interval == FDiv(<< duration, 1 >>, << config.interval_count, 1 >>)
        bridge_interval == BridgeInterval(interval, config)
        main_frames == MainFrames(config)
        bridge_frames == BridgeFrames(duration, bridge_interval, config)
    IN  [kind |-> "plan", interval |-> interval,
         bridge_interval |-> bridge_interval, main_frames |-> main_frames,
         bridge_frames |-> bridge_frames,
         expected_frames |-> ExpectedFrames(main_frames, bridge_frames),
         bridge_in_select |-> FPositive(bridge_interval)]

\* What get_video_duration returns and what the settings can hold.
PlanDurations == {NoDuration, 0, 7, 100}
PlanFps == {1, 2, 10}
PlanIntervals == {0, 3, 10}
PlanClipLengths == {<< 3, 10 >>, << 1, 4 >>}
PlanBridgePercents == {-5, 0, 5}
PlanBridgeAbs == {<< 0, 1 >>, << 2, 1 >>}
PlanBridgeWindows == {<< 3, 100 >>}

PlanInit ==
    /\ NoBatch
    /\ eta_in = [completed_videos |-> 0]
    /\ eta_out = [text |-> "none"]
    /\ probe_stub = << >>
    /\ probe_out = [kind |-> "none"]
    /\ \E duration \in PlanDurations, fps \in PlanFps,
          intervals \in PlanIntervals, clip_length \in PlanClipLengths,
          bridge_percent \in PlanBridgePercents,
          bridge_abs \in PlanBridgeAbs, bridge_window \in PlanBridgeWindows :
          plan_in = [duration |-> duration,
                     config |-> BuildConfig(fps, intervals, clip_length,
                                            bridge_percent, bridge_abs,
                                            bridge_window)]
    /\ plan_out = [kind |-> "none"]
    /\ fs_files = {}
    /\ fs_jobs = << >>
    /\ fs_deleted = {}
    /\ fs_kept = {}

\* process_video, lines 155-192.
process_video_plan ==
    /\ plan_out.kind = "none"
    /\ plan_out' =
          IF plan_in.duration = NoDuration
          THEN [kind |-> "Duration read failed"]
          ELSE IF PlanRaises(plan_in.duration, plan_in.config.interval_count)
          THEN [kind |-> "ZeroDivisionError"]
          ELSE SamplingPlan(plan_in.duration, plan_in.config)
    /\ UNCHANGED << mainVars, etaVars, probeVars, plan_in, fsVars >>

PlanSpec == PlanInit /\ [][process_video_plan]_vars

\* --------------------------------- the files of a folder under process_video
\* A file name is a stem and a suffix; a stem is a sequence of pieces so that
\* "a-landscape" is "a" followed by "-landscape".  The folder can hold the
\* videos a.mp4, b.mp4 and a-landscape.mp4.
FsStems == {<< "a" >>, << "b" >>, << "a", "-landscape" >>}

Source(stem) == [stem |-> stem, suffix |-> "mp4"]
\* Line 131: video.with_name(f"{video.stem}-landscape.webp").
Output(stem) == [stem |-> stem \o << "-landscape" >>, suffix |-> "webp"]
\* A preview of the video in an older format.
OldPreview(stem) == [stem |-> stem \o << "-landscape" >>, suffix |-> "jpg"]
\* A preview in the output format whose suffix is written in capitals.
UpperPreview(stem) == [stem |-> stem \o << "-landscape" >>, suffix |-> "WEBP"]

\* Line 118: file.suffix.lower().
SuffixLower(suffix) == IF suffix = "WEBP" THEN "webp" ELSE suffix

\* Line 117: folder.glob(f"{stem}-landscape.*").
GlobMatches(file, stem) == file.stem = stem \o << "-landscape" >>

\* Lines 117-123: the files cleanup_old_landscapes tries to unlink, and those
\* it unlinks and lists when unlink raises for the files in failing.
CleanupEveryMatch(files, stem) ==
    {file \in files : GlobMatches(file, stem)}

CleanupTries(files, stem) ==
    {file \in files : /\ GlobMatches(file, stem)
                      /\ SuffixLower(file.suffix) # "webp"}

CleanupDeletes(files, stem, failing) == CleanupTries(files, stem) \ failing

FsInit ==
    /\ NoBatch
    /\ eta_in = [completed_videos |-> 0]
    /\ eta_out = [text |-> "none"]
    /\ probe_stub = << >>
    /\ probe_out = [kind |-> "none"]
    /\ plan_in = [interval_count |-> 0]
    /\ plan_out = [kind |-> "none"]
    /\ \E videos \in (SUBSET FsStems) \ {{}} :
       \E old \in SUBSET videos, upper \in SUBSET videos :
          /\ fs_files = {Source(v) : v \in videos}
                            \cup {OldPreview(v) : v \in old}
                            \cup {UpperPreview(v) : v \in upper}
          /\ fs_jobs = [v \in videos |-> "queued"]
    /\ fs_deleted = {}
    /\ fs_kept = {}

\* process_video, lines 130-236, for the video with this stem: skipped when
\* its output exists (overwrite is off), failed when ffprobe finds no source
\* file, else ffmpeg is started.
process_video_launch(stem) ==
    /\ stem \in DOMAIN fs_jobs
    /\ fs_jobs[stem] = "queued"
    /\ Cardinality({v \in DOMAIN fs_jobs : fs_jobs[v] = "sampling"})
          < NumWorkers
    /\ fs_jobs' = [fs_jobs EXCEPT ![stem] =
                      IF SkipExisting(Output(stem) \in fs_files, overwrite_var)
                      THEN "skipped"
                      ELSE IF Source(stem) \notin fs_files THEN "failed"
                      ELSE "sampling"]
    /\ UNCHANGED << mainVars, etaVars, probeVars, planVars, fs_files,
                    fs_deleted, fs_kept >>

\* process_video, lines 267-299: ffmpeg has written the output and exits with
\* status 0, the old previews are cleaned up; or it fails.
process_video_finish(stem) ==
    /\ stem \in DOMAIN fs_jobs
    /\ fs_jobs[stem] = "sampling"
    /\ \E ok \in BOOLEAN :
       \E failing \in SUBSET CleanupTries(fs_files, stem) :
          LET written == IF ok THEN fs_files \cup {Output(stem)} ELSE fs_files
              deleted == IF CleanupRuns(IF ok THEN "ok" ELSE "ffmpeg error")
                         THEN CleanupDeletes(written, stem, failing)
                         ELSE {}
              kept == IF CleanupRuns(IF ok THEN "ok" ELSE "ffmpeg error")
                      THEN CleanupTries(written, stem) \cap failing
                      ELSE {}
          IN  /\ fs_files' = written \ deleted
              /\ fs_deleted' = fs_deleted \cup {<< stem, f >> : f \in deleted}
              /\ fs_kept' = fs_kept \cup {<< stem, f >> : f \in kept}
              /\ fs_jobs' = [fs_jobs EXCEPT ![stem] =
                                IF ok THEN "done" ELSE "failed"]
    /\ UNCHANGED << mainVars, etaVars, probeVars, planVars >>

FsNext ==
    \/ \E stem \in FsStems : process_video_launch(stem)
    \/ \E stem \in FsStems : process_video_finish(stem)

FsSpec == FsInit /\ [][FsNext]_vars

\* ------------------------------------------------------------------ claims
Pending(callback) ==
    \E i \in 1..Len(after_queue) : after_queue[i] = callback

Busy(w) == wpc[w] \in {"probe", "sample"}

\* C1: every Job a worker popped and is done with has exactly one JobComplete
\* on record, whatever process_video met (never zero, never two).
C1_ExactlyOneJobComplete ==
    \A j \in Jobs :
       /\ emitted[j] <= 1
       /\ (dispatched[j] >= 1 /\ \A w \in Workers : wjob[w] # j)
             => emitted[j] = 1

\* C2: every enqueued VideoJob is received by at most one worker: no Job is
\* received twice and no two workers hold the same Job.
C2_JobReceivedByAtMostOneWorker ==
    /\ \A j \in Jobs : dispatched[j] <= 1
    /\ \A w1, w2 \in Workers :
          (w1 # w2 /\ wjob[w1] # 0) => wjob[w1] # wjob[w2]

C2_Witness ==
    \E w1, w2 \in Workers : w1 # w2 /\ wjob[w1] # 0 /\ wjob[w2] # 0

\* C3: when processing_complete has been triggered, completed_videos equals
\* total_videos and every Job was counted exactly once.
C3_CompleteCountsEveryJobOnce ==
    Pending("processing_complete") =>
       /\ completed_videos = total_videos
       /\ \A j \in Jobs : counted[j] = 1 /\ emitted[j] = 1

C3_Witness ==
    Pending("processing_complete") /\ ~is_stopping /\ ~stop_returned

\* C4: once stop_processing has returned the job queue holds no VideoJob, and
\* with every worker mid-job it holds exactly one poison pill per worker.
C4_StopLeavesOnePillPerWorker ==
    stop_returned =>
       /\ \A i \in 1..Len(job_queue) : job_queue[i] = PoisonPill
       /\ (\A w \in Workers : Busy(w)) => Len(job_queue) = NumWorkers

C4_Witness ==
    /\ stop_returned
    /\ \A w \in Workers : Busy(w)
    /\ Len(job_queue) = NumWorkers

\* C5: while stopping, every JobComplete the monitor receives increments
\* completed_videos by one, whatever its success flag or message.
C5_DrainingCountsEveryJobComplete ==
    [][ ( /\ is_stopping
          /\ \E m \in Monitors : mon_pc[m] = "get" /\ mon_pc'[m] # "get"
          /\ progress_queue # << >>
          /\ Head(progress_queue).type = "JobComplete" )
        => completed_videos' = completed_videos + 1 ]_vars

\* C6: Stop never interrupts work in flight: the steps of stop_processing
\* leave every worker as it is, and a Job held by a worker when Stop was
\* pressed is run by that worker to its JobComplete.
C6_InFlightJobRunsToJobComplete ==
    [][ /\ (gui_pc' # gui_pc \/ pills_put' # pills_put
                \/ is_stopping' # is_stopping)
           => (wpc' = wpc /\ wjob' = wjob)
        /\ \A w \in Workers :
              (wjob[w] \in in_flight_at_stop /\ wjob'[w] = 0)
                 => (emitted'[wjob[w]] = 1 /\ wpc'[w] = "get") ]_vars

C8_FinishStopOnlyWhenNoWorkerAlive ==
    Pending("_finish_stop") => \A w \in Workers : ~IsAlive(w)

C8_Witness ==
    Pending("_finish_stop") /\ job_queue # << >>

\* C9: a worker leaves its loop only by receiving the poison pill; an exception
\* that reaches worker_process leaves that worker ready to pop the next item
\* and ends neither another worker nor the monitor thread.
C9_ExceptionKeepsWorkerAlive ==
    [][ /\ \A w \in Workers :
              (wpc[w] # "exited" /\ wpc'[w] = "exited")
                 => ( /\ wpc[w] = "get"
                      /\ job_queue # << >>
                      /\ Head(job_queue) = PoisonPill )
        /\ worker_errors' # worker_errors
              => ( /\ \A e \in worker_errors' \ worker_errors :
                         wpc'[e[1]] = "get"
                   /\ \A w \in Workers :
                         IsAlive(w) => wpc'[w] \in {"get", "probe", "sample"}
                   /\ mon_pc' = mon_pc ) ]_vars

C9_Witness ==
    \E e \in worker_errors : wjob[e[1]] # 0 /\ wjob[e[1]] # e[2]

\* C10: a Job whose output exists, with overwrite off, is answered by one
\* JobComplete with success and "SKIP (exists)"; neither ffprobe nor ffmpeg
\* is ever invoked for it.
C10_ExistingOutputIsSkipped ==
    [][ \A j \in Jobs :
          (j \in outputs /\ ~overwrite_var /\ j \notin sampled)
             => /\ j \notin probed' /\ j \notin sampled'
                /\ emitted'[j] <= 1
                /\ dispatched'[j] = dispatched[j] + 1
                      => /\ emitted'[j] = 1
                         /\ \E w \in Workers :
                               progress_queue' = Append(progress_queue,
                                  JobComplete(w, j, TRUE, "SKIP (exists)",
                                              << >>, video_durations[j])) ]_vars

C10_Witness ==
    \E i \in 1..Len(progress_queue) :
       /\ progress_queue[i].type = "JobComplete"
       /\ progress_queue[i].message = "SKIP (exists)"

\* C11: a Job picked up with its output present is sampled only with overwrite
\* on, and a sampler that exits with status 0 is reported with success and
\* "OK (overwritten)" when the output was there at pick-up, "OK" when it was not.
C11_OverwrittenIsReported ==
    [][ \A w \in Workers :
          /\ (wpc[w] = "get" /\ wpc'[w] = "probe")
                => /\ wexisted'[w] = (wjob'[w] \in outputs)
                   /\ wexisted'[w] => overwrite_var
          /\ (wpc[w] = "sample" /\ wpc'[w] = "get")
                => LET msg == progress_queue'[Len(progress_queue')] IN
                   /\ progress_queue' = Append(progress_queue, msg)
                   /\ msg.video_name = wjob[w]
                   /\ msg.success
                        => msg.message = IF wexisted[w]
                                         THEN "OK (overwritten)" ELSE "OK"
                   /\ ~msg.success => msg.message \notin {"OK", "OK (overwritten)"}
      ]_vars

C11_Witness ==
    /\ \E i \in 1..Len(progress_queue) :
          /\ progress_queue[i].type = "JobComplete"
          /\ progress_queue[i].message = "OK (overwritten)"
    /\ \E i \in 1..Len(progress_queue) :
          /\ progress_queue[i].type = "JobComplete"
          /\ progress_queue[i].message = "OK"

\* C12: a JobComplete handled while not stopping that makes fewer than 2
\* completed videos, less than 10 seconds after batch start, sets the overall
\* label to "ETA: calculating...", whatever the durations processed.
C12_CalculatingDuringWarmup ==
    ( /\ eta_out.text # "none"
      /\ eta_in.completed_videos + 1 < 2
      /\ eta_in.elapsed_since_start < 10 )
    => eta_out.text = "calculating"

C12_Witness ==
    /\ eta_out.text = "calculating"
    /\ eta_in.completed_videos + 1 < 2
    /\ eta_in.elapsed_since_start < 10
    /\ eta_in.elapsed_since_start > 0
    /\ eta_in.processed_video_duration + eta_in.video_duration > 0

\* C13: past the warm-up and with a rate above 0 the ETA is
\* (total_video_duration - processed_video_duration) divided by
\* (processed_video_duration / elapsed), shown in whole seconds, and the speed
\* multiplier is that rate.
C13_EtaWeightedByDuration ==
    LET completed == eta_in.completed_videos + 1
        elapsed == eta_in.elapsed_since_start
        processed == eta_in.processed_video_duration + eta_in.video_duration
        left == eta_in.total_video_duration - processed
    IN  ( /\ eta_out.text # "none"
          /\ completed >= 2 \/ elapsed >= 10
          /\ elapsed > 0
          /\ processed > 0 )
        => /\ eta_out.text = "eta"
           /\ eta_out.eta_seconds[1] * processed
                 = left * elapsed * eta_out.eta_seconds[2]
           /\ eta_out.eta_shown * processed <= left * elapsed
           /\ left * elapsed < (eta_out.eta_shown + 1) * processed
           /\ eta_out.speed_multiplier[1] * elapsed
                 = processed * eta_out.speed_multiplier[2]

\* The ETA by duration differs from what the count of videos left would give.
C13_Witness ==
    /\ eta_out.text = "eta"
    /\ eta_out.eta_shown = 40
    /\ eta_out.eta_shown #
          (eta_out.remaining * eta_in.elapsed_since_start)
             \div (eta_in.completed_videos + 1)

ProbeFails(output) == output = "" \/ (output # "OSError" /\ ~ParsesAsFloat(output))

\* C14: get_video_duration runs ffprobe at most 3 times and stops at the first
\* run whose output parses: two failures then a success give the value after
\* exactly 3 runs, three failures give None after exactly 3 runs.
C14_ThreeAttempts ==
    probe_out.kind # "none" =>
       /\ probe_out.attempts <= 3
       /\ probe_out.kind = "float" =>
             /\ ParsesAsFloat(probe_stub[probe_out.attempts])
             /\ probe_out.value = ParseFloat(probe_stub[probe_out.attempts])
             /\ \A k \in 1..(probe_out.attempts - 1) : ProbeFails(probe_stub[k])
       /\ ( /\ ProbeFails(probe_stub[1]) /\ ProbeFails(probe_stub[2])
             /\ ParsesAsFloat(probe_stub[3]) )
             => /\ probe_out.kind = "float"
                /\ probe_out.value = ParseFloat(probe_stub[3])
                /\ probe_out.attempts = 3
       /\ (\A k \in 1..3 : ProbeFails(probe_stub[k]))
             => probe_out.kind = "None" /\ probe_out.attempts = 3

C14_Witness ==
    /\ probe_out.kind = "float"
    /\ probe_out.attempts = 3
    /\ probe_stub[1] = "" /\ probe_stub[2] = "N/A" /\ probe_stub[3] = "3"

\* round(x) of Python for a fraction that is not negative: to the nearest
\* integer, a tie to the even one.
RoundHalfEven(a) ==
    LET q == a[1] \div a[2]
        twice == 2 * (a[1] % a[2])
    IN  IF twice < a[2] THEN q
        ELSE IF twice > a[2] THEN q + 1
        ELSE IF q % 2 = 0 THEN q ELSE q + 1

AtLeastOne(n) == IF n >= 1 THEN n ELSE 1

NoBridgeConfigured ==
    /\ plan_out.kind = "plan"
    /\ plan_in.config.bridge_percent[1] = 0
    /\ plan_in.config.bridge_interval_abs[1] = 0
    /\ plan_in.duration > 0

\* C15 as stated: with bridge_percent = 0 and bridge_interval_abs = 0 and a
\* duration above 0 the plan has bridge_interval = 0, no bridge term, and
\* expected frames max(1, round(interval_count * clip_length * fps)).
C15_ExpectedFramesRounded ==
    NoBridgeConfigured =>
       /\ plan_out.bridge_interval[1] = 0
       /\ ~plan_out.bridge_in_select
       /\ plan_out.expected_frames =
             AtLeastOne(RoundHalfEven(
                << plan_in.config.interval_count
                      * plan_in.config.clip_length[1] * plan_in.config.fps,
                   plan_in.config.clip_length[2] >>))

\* C15 amended: the same, with expected frames
\* max(1, int(interval_count * clip_length * fps)), the product cut to an
\* integer and not rounded.
C15_ExpectedFramesTruncated ==
    NoBridgeConfigured =>
       /\ plan_out.bridge_interval[1] = 0
       /\ ~plan_out.bridge_in_select
       /\ plan_out.expected_frames =
             AtLeastOne((plan_in.config.interval_count
                            * plan_in.config.clip_length[1]
                            * plan_in.config.fps)
                        \div plan_in.config.clip_length[2])

\* 3 * 0.3 * 2 = 1.8: one frame expected, two if rounded.
C15_Witness ==
    /\ NoBridgeConfigured
    /\ plan_in.config.interval_count = 3
    /\ plan_in.config.clip_length = << 3, 10 >>
    /\ plan_in.config.fps = 2
    /\ plan_out.expected_frames = 1

PlanExample ==
    /\ plan_in.duration = 100
    /\ plan_in.config.interval_count = 10
    /\ plan_in.config.clip_length = << 3, 10 >>
    /\ plan_in.config.fps = 10
    /\ plan_in.config.bridge_percent = << 5, 100 >>
    /\ plan_in.config.bridge_window = << 3, 100 >>

C17_CleanupTouchesOwnFilesOnly ==
    \A d \in fs_deleted :
       \A other \in DOMAIN fs_jobs :
          other # d[1] => d[2] # Source(other) /\ d[2] # Output(other)

\* C18: with zero workers requested Start is rejected before dispatch: no Job
\* is put on the job queue, no monitor thread is started and is_running is
\* never set.
C18_ZeroWorkersRejected ==
    workers_var = 0 =>
       /\ \A i \in 1..Len(job_queue) : job_queue[i] = PoisonPill
       /\ \A m \in Monitors : mon_pc[m] = "none"
       /\ ~is_running

\* C19: line 166, where the sampling plan begins, is never reached with an
\* interval count of 0 or with a duration of 0.
C19_PlanInputsValidated ==
    plan_out.kind \in {"plan", "ZeroDivisionError"} =>
       /\ plan_in.config.interval_count # 0
       /\ plan_in.duration # 0

\* C20: at most one monitor_progress thread is in its loop at any time.
C20_OneMonitorThread ==
    Cardinality({m \in Monitors : mon_pc[m] \in {"check", "get"}}) <= 1

\* A worker comes back from the duration probe without a plan and without
\* having started ffmpeg: get_video_duration gave None.
ProbeGaveNone(w) ==
    /\ wpc[w] = "probe" /\ wpc'[w] = "get"
    /\ sampled' = sampled
    /\ worker_errors' = worker_errors

\* C21 as stated: when the duration probe of a Job that is not skipped fails,
\* the worker puts one JobComplete with success=False and the message
\* "duration unavailable", ffmpeg is not started for the Job, and the worker
\* goes on to the next item of the queue.
C21_DurationUnavailableMessage ==
    [][ \A w \in Workers :
          ProbeGaveNone(w) =>
             /\ progress_queue' = Append(progress_queue,
                   JobComplete(w, wjob[w], FALSE, "duration unavailable",
                               << >>, video_durations[wjob[w]]))
             /\ emitted'[wjob[w]] = 1
             /\ wjob[w] \notin sampled'
             /\ \A v \in Workers \ {w} : wpc'[v] = wpc[v]
             /\ mon_pc' = mon_pc ]_vars

\* C21 amended: the same with the message "Duration read failed".
C21_DurationReadFailedMessage ==
    [][ \A w \in Workers :
          ProbeGaveNone(w) =>
             /\ progress_queue' = Append(progress_queue,
                   JobComplete(w, wjob[w], FALSE, "Duration read failed",
                               << >>, video_durations[wjob[w]]))
             /\ emitted'[wjob[w]] = 1
             /\ wjob[w] \notin sampled'
             /\ \A v \in Workers \ {w} : wpc'[v] = wpc[v]
             /\ mon_pc' = mon_pc ]_vars

\* A worker whose probe failed holds the next Job while the batch runs.
C21_Witness ==
    \E i \in 1..Len(progress_queue), w \in Workers :
       /\ progress_queue[i].type = "JobComplete"
       /\ progress_queue[i].message = "Duration read failed"
       /\ progress_queue[i].worker_id = w
       /\ wjob[w] \notin {0, progress_queue[i].video_name}
       /\ is_running

\* C22: a worker whose ffmpeg ended with a nonzero status, or whose launch or
\* reading of ffmpeg raised, puts one JobComplete with success=False and a
\* cause as message; no file of the folder is deleted in that step and the
\* message names no deleted file.
C22_SamplerFailureDeletesNothing ==
    [][ \A w \in Workers :
          ( \/ wpc[w] = "sample" /\ wpc'[w] = "get"
            \/ wpc[w] = "probe" /\ wpc'[w] = "get" /\ sampled' # sampled )
          => LET msg == progress_queue'[Len(progress_queue')] IN
             /\ progress_queue' = Append(progress_queue, msg)
             /\ msg.type = "JobComplete"
             /\ msg.video_name = wjob[w]
             /\ emitted'[wjob[w]] = 1
             /\ ~msg.success =>
                   /\ msg.message \in {"ffmpeg error", "exception"}
                   /\ msg.deleted_files = << >>
                   /\ old_files' = old_files
                   /\ outputs' = outputs
             /\ old_files' # old_files => msg.success ]_vars

\* ffmpeg failed for a video that has an old preview, which is still there.
C22_Witness ==
    \E i \in 1..Len(progress_queue) :
       /\ progress_queue[i].type = "JobComplete"
       /\ progress_queue[i].message = "ffmpeg error"
       /\ progress_queue[i].video_name \in old_files

\* C23: after ffmpeg's status 0 the cleanup of a video removes only files named
\* <stem>-landscape.* whose suffix is not that of the output format, never the
\* output itself; the list of deleted files holds exactly the files removed; a
\* file whose unlink raised stays in the folder and off the list, and the job
\* is reported as done all the same.
C23_CleanupDeletesOldFormatsOnly ==
    [][ /\ \A f \in fs_files \ fs_files' :
              \E stem \in DOMAIN fs_jobs :
                 /\ << stem, f >> \in fs_deleted' \ fs_deleted
                 /\ fs_jobs[stem] = "sampling" /\ fs_jobs'[stem] = "done"
        /\ \A d \in fs_deleted' :
              /\ d[2].stem = d[1] \o << "-landscape" >>
              /\ d[2].suffix \notin {"webp", "WEBP"}
              /\ d[2] # Output(d[1])
              /\ d[2] \notin fs_files'
              /\ fs_jobs'[d[1]] = "done"
        /\ \A k \in fs_kept' :
              /\ k \notin fs_deleted'
              /\ k[2] \in fs_files'
              /\ fs_jobs'[k[1]] = "done"
        /\ \A stem \in DOMAIN fs_jobs :
              fs_jobs'[stem] = "done" => Output(stem) \in fs_files' ]_vars

\* One old file was removed and listed, another stayed because its unlink
\* raised, the previews in the output format are both there.
C23_Witness ==
    \E stem \in DOMAIN fs_jobs :
       /\ fs_jobs[stem] = "done"
       /\ \E d \in fs_deleted : d[1] = stem
       /\ \E k \in fs_kept : k[1] = stem
       /\ Output(stem) \in fs_files
       /\ UpperPreview(stem) \in fs_files

\* C24: a JobComplete handled while not stopping, past the warm-up, with a
\* rate processed_video_duration / elapsed of 0, sets the overall label to
\* "ETA: calculating..." and shows the completed count and the progress
\* with the video counted.
C24_ZeroRateIsCalculating ==
    LET completed == eta_in.completed_videos + 1
        elapsed == eta_in.elapsed_since_start
        processed == eta_in.processed_video_duration + eta_in.video_duration
    IN  ( /\ eta_out.text # "none"
          /\ completed >= 2 \/ elapsed >= 10
          /\ elapsed > 0
          /\ processed = 0 )
        => /\ eta_out.text = "calculating"
           /\ eta_out.remaining = eta_in.total_videos - completed
           /\ eta_out.progress = << completed, eta_in.total_videos >>

\* Ten seconds have passed, the first video to complete had no duration.
C24_Witness ==
    /\ eta_out.text = "calculating"
    /\ eta_in.completed_videos = 0
    /\ eta_in.elapsed_since_start = 10
    /\ eta_in.processed_video_duration + eta_in.video_duration = 0
    /\ eta_out.progress = << 1, 3 >>

\* C25: get_video_duration returns a number only when it is above 0; an output
\* of ffprobe that parses to 0 or less is passed over like one that does not
\* parse, and None is returned when no run gives a number above 0.
C25_OnlyPositiveDurations ==
    probe_out.kind # "none" =>
       /\ probe_out.kind = "float" => probe_out.value > 0
       /\ (\A k \in 1..Retries :
              ProbeFails(probe_stub[k])
                 \/ (ParsesAsFloat(probe_stub[k])
                        /\ ParseFloat(probe_stub[k]) <= 0))
             => probe_out.kind = "None"

\* C26: in the plan bridge_interval is interval * bridge_percent whenever
\* bridge_percent > 0, whatever bridge_interval_abs; it is bridge_interval_abs
\* when bridge_percent is not above 0 and bridge_interval_abs > 0; else 0.
C26_PercentBeforeAbsolute ==
    plan_out.kind = "plan" =>
       LET config == plan_in.config
           percent == config.bridge_percent
           abs == config.bridge_interval_abs
       IN  IF percent[1] > 0
           THEN FEq(plan_out.bridge_interval,
                    << plan_in.duration * percent[1],
                       config.interval_count * percent[2] >>)
           ELSE IF abs[1] > 0
           THEN FEq(plan_out.bridge_interval, abs)
           ELSE FEq(plan_out.bridge_interval, << 0, 1 >>)

\* Both settings are above 0 and differ: 5 percent of an interval of 10
\* seconds against 2 seconds.
C26_Witness ==
    /\ plan_out.kind = "plan"
    /\ plan_in.duration = 100
    /\ plan_in.config.interval_count = 10
    /\ plan_in.config.bridge_percent = << 5, 100 >>
    /\ plan_in.config.bridge_interval_abs = << 2, 1 >>
    /\ FEq(plan_out.bridge_interval, << 1, 2 >>)

\* The monitor has received the JobComplete of the job.
ObservedComplete(j) ==
    /\ emitted[j] >= 1
    /\ \A i \in 1..Len(progress_queue) :
          ~(progress_queue[i].type = "JobComplete"
               /\ progress_queue[i].video_name = j)

\* C27: the monitor receives the events of a Job in the order its worker put
\* them: the progress queue changes only by a put at its end, a get at its
\* front or its creation at batch start, a ProgressUpdate of a Job is received
\* only before the Job's JobComplete, and once the JobComplete is received no
\* ProgressUpdate of the Job is waiting or will be put; events of different
\* workers are ordered in any way.
C27_EventsOfAJobInOrder ==
    [][ /\ \/ progress_queue' = progress_queue
           \/ progress_queue # << >> /\ progress_queue' = Tail(progress_queue)
           \/ \E w \in Workers :
                 /\ wjob[w] # 0 \/ wjob'[w] # 0 \/ dispatched' # dispatched
                 /\ progress_queue' =
                       Append(progress_queue,
                              progress_queue'[Len(progress_queue')])
                 /\ progress_queue'[Len(progress_queue')].worker_id = w
           \/ launch_pc = "scanned" /\ progress_queue' = << >>
        /\ \A j \in Jobs :
              /\ ( /\ progress_queue # << >>
                    /\ progress_queue' = Tail(progress_queue)
                    /\ Head(progress_queue).type = "ProgressUpdate"
                    /\ Head(progress_queue).video_name = j )
                 => ~ObservedComplete(j)
              /\ ObservedComplete(j)' =>
                    /\ \A i \in 1..Len(progress_queue') :
                          progress_queue'[i].video_name # j
                    /\ \A w \in Workers : wjob'[w] # j ]_vars

\* A ProgressUpdate and the JobComplete of one Job wait in the queue with the
\* JobComplete of another worker between them.
C27_Witness ==
    \E i, m, k \in 1..Len(progress_queue) :
       /\ i < m /\ m < k
       /\ progress_queue[i].type = "ProgressUpdate"
       /\ progress_queue[k].type = "JobComplete"
       /\ progress_queue[k].video_name = progress_queue[i].video_name
       /\ progress_queue[m].worker_id # progress_queue[i].worker_id

\* Stop has not been pressed in the batch.
NeverStopped == ~is_stopping /\ ~stop_returned /\ gui_pc = "idle"

IsJob(item) == item # PoisonPill

\* C28: at batch start the job queue holds one VideoJob per video followed by
\* exactly one poison pill per worker when the workers are started; in a batch
\* that is not stopped no poison pill is ahead of a VideoJob and no worker
\* exits while a VideoJob is queued; batch_start_time is set only when all
\* workers have been started, and the monitor takes no event before it is.
C28_JobsThenPillsThenStartTime ==
    [][ /\ (launch_pc = "scanned" /\ launch_pc' = "queued")
              => /\ \A w \in Workers : ~IsAlive(w)
                 /\ Len(job_queue') = NumJobs + workers_var
                 /\ \A i \in 1..NumJobs : job_queue'[i] = i
                 /\ \A i \in (NumJobs + 1)..Len(job_queue') :
                       job_queue'[i] = PoisonPill
                 /\ workers' = 1..workers_var
                 /\ \A w \in workers' : wpc'[w] = "get"
                 /\ ~batch_start_time'
        /\ NeverStopped' =>
              /\ \A i, k \in 1..Len(job_queue') :
                    (i < k /\ IsJob(job_queue'[k])) => IsJob(job_queue'[i])
              /\ \A w \in Workers :
                    (wpc[w] # "exited" /\ wpc'[w] = "exited")
                       => /\ \A i \in 1..Len(job_queue) :
                                ~IsJob(job_queue[i])
                          /\ \A j \in Jobs : dispatched[j] = 1
        /\ (~batch_start_time /\ batch_start_time')
              => /\ launch_pc = "queued"
                 /\ workers = 1..workers_var
                 /\ \A w \in workers : wpc[w] # "none"
        /\ (\E m \in Monitors : mon_pc[m] = "get" /\ mon_pc'[m] # "get"
                                    /\ progress_queue' # progress_queue)
              => batch_start_time ]_vars

\* C29: after Stop was pressed in a running batch, with every ffprobe and
\* ffmpeg in flight ending, every worker exits and _finish_stop runs, once:
\* a monitor thread that leaves its loop while stopping has scheduled
\* _finish_stop, and at most one _finish_stop is scheduled.
C29_StopReachesFinishStopOnce ==
    /\ [][ /\ \A m \in Monitors :
                 (is_stopping /\ mon_pc[m] # "dead" /\ mon_pc'[m] = "dead")
                    => after_queue' = Append(after_queue, "_finish_stop")
           /\ Cardinality({i \in 1..Len(after_queue') :
                              after_queue'[i] = "_finish_stop"}) <= 1 ]_vars
    /\ is_stopping ~> (\A w \in Workers : ~IsAlive(w))
    /\ is_stopping ~> (~is_stopping /\ overall_label = "stopped")

\* C30: when _finish_stop has reported the final counts, every JobComplete a
\* worker put before it exited has been received by the monitor thread: none
\* is left in the progress queue.
C30_NoJobCompleteLeftAtFinishStop ==
    overall_label = "stopped" =>
       /\ \A i \in 1..Len(progress_queue) :
             progress_queue[i].type # "JobComplete"
       /\ \A j \in Jobs : emitted[j] >= 1 => ObservedComplete(j)

\* C31: a batch that is running ends (with every ffprobe and ffmpeg ending it
\* completes unless Stop is pressed), and a JobComplete handled while not
\* stopping always gets to the completion check: when it makes
\* completed_videos reach total_videos, processing_complete is scheduled.
C31_CompletionCheckAlwaysReached ==
    /\ [][ \A m \in Monitors :
             ( /\ mon_pc[m] = "get" /\ mon_pc'[m] = "check"
               /\ ~is_stopping
               /\ progress_queue # << >>
               /\ Head(progress_queue).type = "JobComplete"
               /\ progress_queue' = Tail(progress_queue) )
             => /\ completed_videos' = completed_videos + 1
                /\ completed_videos' >= total_videos
                      => after_queue' =
                            Append(after_queue, "processing_complete") ]_vars
    /\ is_running ~> ~is_running

C33_StopWhenNotRunningChangesNothing ==
    [][ (stray_stops_left' < stray_stops_left /\ ~is_running)
           => UNCHANGED << auxVars, batchVars >> ]_vars

C33_Witness ==
    /\ stray_stops_left < MaxStrayStops
    /\ stop_returned /\ is_stopping /\ ~is_running
    /\ pills_put = Cardinality(workers)

====
